---- MODULE Spec2Model ----
(***************************************************************************)
(* Experiment identity / metadata subsystem of expman.                     *)
(*                                                                         *)
(* Two implementations live in the repository and both are modelled:       *)
(*   - expman/experiment_profile.py : ExperimentProfile.create_id_card and *)
(*     ExperimentProfile.update_id_card_with_artifacts ("EP" below);       *)
(*   - expman/core.py : create_experiment / create_id_card / next_id       *)
(*     ("core" below).                                                     *)
(*                                                                         *)
(* Strings the code inspects character by character (directory names,      *)
(* dotted config keys, serialized JSON) are sequences of one-character     *)
(* strings.  File names inside an experiment directory are plain strings.  *)
(***************************************************************************)
EXTENDS Integers, Sequences, FiniteSets, TLC

VARIABLES
  fs,      \* the experiment root: directory-entry name -> entry
  now,     \* the wall clock, in ticks
  pc,      \* per writer process: position in its current operation
  loc,     \* per writer process: the local variables of its operation
  seen,    \* what the last reader of a record file got
  log      \* history: [on, es, delmax]; es lists the registrations made
           \* while on; delmax: a highest-numbered directory was deleted

vars == <<fs, now, pc, loc, seen, log>>

(***************************************************************************)
(* Bounds of the model.                                                    *)
(***************************************************************************)
MaxTime == 1        \* the clock runs 0..MaxTime
MaxLog  == 2        \* at most this many registrations are recorded in log

(***************************************************************************)
(* Characters, digits, decimal formatting and parsing.                     *)
(***************************************************************************)
DigitChars == <<"0", "1", "2", "3", "4", "5", "6", "7", "8", "9">>
HexChars   == DigitChars \o <<"a", "b", "c", "d", "e", "f">>

\* Collating order of the characters that occur (ASCII order).
Alphabet ==
  <<"\"", ",", ".", "0", "1", "2", "3", "4", "5", "6", "7", "8", "9", ":",
    "_", "a", "b", "c", "d", "e", "f", "i", "l", "m", "n", "o", "p", "s",
    "t", "u", "x", "{", "}">>

CharCode(c) == CHOOSE i \in 1..Len(Alphabet) : Alphabet[i] = c

IsDigit(c) == \E i \in 1..10 : DigitChars[i] = c

DigitVal(c) == (CHOOSE i \in 1..10 : DigitChars[i] = c) - 1

RECURSIVE Digits(_)
\* str(n) for n >= 0
Digits(n) ==
  IF n < 10 THEN <<DigitChars[n + 1]>>
  ELSE Digits(n \div 10) \o <<DigitChars[(n % 10) + 1]>>

RECURSIVE ZeroPad(_, _)
\* the "0{width}d" format: pad on the left with zeros up to width, never cut
ZeroPad(s, width) ==
  IF Len(s) >= width THEN s ELSE ZeroPad(<<"0">> \o s, width)

RECURSIVE ParseInt(_)
\* int(s) for a non-empty digit string
ParseInt(s) ==
  IF Len(s) = 0 THEN 0
  ELSE 10 * ParseInt(SubSeq(s, 1, Len(s) - 1)) + DigitVal(s[Len(s)])

RECURSIVE LeadingDigits(_)
\* the greedy match of \d* at the start of s
LeadingDigits(s) ==
  IF Len(s) > 0 /\ IsDigit(s[1]) THEN <<s[1]>> \o LeadingDigits(Tail(s))
  ELSE <<>>

StartsWith(s, p) == Len(s) >= Len(p) /\ SubSeq(s, 1, Len(p)) = p

Drop(s, n) == IF n >= Len(s) THEN <<>> ELSE SubSeq(s, n + 1, Len(s))

RECURSIVE UpTo(_, _)
\* the part of s before the first occurrence of character c (all of s if none)
UpTo(s, c) ==
  IF Len(s) = 0 \/ s[1] = c THEN <<>> ELSE <<s[1]>> \o UpTo(Tail(s), c)

RECURSIVE SplitOn(_, _)
\* s.split(c): the list of segments of s between occurrences of c
SplitOn(s, c) ==
  LET head == UpTo(s, c)
  IN IF Len(head) = Len(s) THEN <<head>>
     ELSE <<head>> \o SplitOn(Drop(s, Len(head) + 1), c)

\* lexicographic order on character sequences (Python's str comparison)
RECURSIVE StrLess(_, _)
StrLess(a, b) ==
  IF Len(b) = 0 THEN FALSE
  ELSE IF Len(a) = 0 THEN TRUE
  ELSE IF a[1] = b[1] THEN StrLess(Tail(a), Tail(b))
  ELSE CharCode(a[1]) < CharCode(b[1])

SetMax(S) == CHOOSE m \in S : \A n \in S : n <= m

Prefix == <<"e", "x", "p", "_">>

(***************************************************************************)
(* Plain nested mappings (Python dicts keep insertion order): a value is   *)
(* an integer leaf, None, or a dict given as the sequence of its           *)
(* <<key, value>> items in insertion order.  Keys are character sequences. *)
(***************************************************************************)
IntV(n)     == [t |-> "int", v |-> n]
NoneV       == [t |-> "none"]
DictV(its)  == [t |-> "dict", items |-> its]
EmptyDict   == DictV(<<>>)

IsDict(x) == x.t = "dict"

DictHas(d, k) == \E i \in 1..Len(d.items) : d.items[i][1] = k

DictGet(d, k) == d.items[CHOOSE i \in 1..Len(d.items) : d.items[i][1] = k][2]

\* d[k] = v : replace in place when k is present, append otherwise
DictSet(d, k, v) ==
  IF DictHas(d, k)
  THEN DictV([i \in 1..Len(d.items) |->
                IF d.items[i][1] = k THEN <<k, v>> ELSE d.items[i]])
  ELSE DictV(Append(d.items, <<k, v>>))

RECURSIVE DictUpdate(_, _)
\* d.update(e)
DictUpdate(d, e) ==
  IF Len(e.items) = 0 THEN d
  ELSE DictUpdate(DictSet(d, e.items[1][1], e.items[1][2]),
                  DictV(Tail(e.items)))

to_plain_dict(cfg) == IF cfg.t = "none" THEN EmptyDict ELSE cfg

RECURSIVE WalkParts(_, _)
WalkParts(cur, parts) ==
  IF Len(parts) = 0 THEN cur
  ELSE IF IsDict(cur) /\ DictHas(cur, parts[1])
       THEN WalkParts(DictGet(cur, parts[1]), Tail(parts))
       ELSE NoneV

get_by_dot(d, key) == WalkParts(d, SplitOn(key, "."))

RECURSIVE FlattenItems(_, _, _)
\* the body of flatten_dict's loop over the items its, accumulating in acc
FlattenItems(its, parent_key, acc) ==
  IF Len(its) = 0 THEN acc
  ELSE LET k == its[1][1]
           v == its[1][2]
           new_key == IF Len(parent_key) > 0 THEN parent_key \o <<".">> \o k
                      ELSE k
           acc2 == IF IsDict(v)
                   THEN DictUpdate(acc, FlattenItems(v.items, new_key, EmptyDict))
                   ELSE DictSet(acc, new_key, v)
       IN FlattenItems(Tail(its), parent_key, acc2)

flatten_dict(d) == FlattenItems(d.items, <<>>, EmptyDict)

RECURSIVE PrefixMatches(_, _, _)
\* the inner loop of _selected_summary: every flattened key starting with k
\* goes under summary[k], keyed by what follows k and one more character
PrefixMatches(cands, k, summary) ==
  IF Len(cands) = 0 THEN summary
  ELSE LET cand_key == cands[1][1]
           cand_val == cands[1][2]
           sub  == IF DictHas(summary, k) THEN DictGet(summary, k) ELSE EmptyDict
           next == IF StartsWith(cand_key, k)
                   THEN DictSet(summary, k,
                                DictSet(sub, Drop(cand_key, Len(k) + 1), cand_val))
                   ELSE summary
       IN PrefixMatches(Tail(cands), k, next)

RECURSIVE SelectKeys(_, _, _)
SelectKeys(cfgd, keep_keys, summary) ==
  IF Len(keep_keys) = 0 THEN summary
  ELSE LET k == keep_keys[1]
           v == get_by_dot(cfgd, k)
           next == IF v.t = "none"
                   THEN PrefixMatches(flatten_dict(cfgd).items, k, summary)
                   ELSE DictSet(summary, k, v)
       IN SelectKeys(cfgd, Tail(keep_keys), next)

\* ExperimentProfile._selected_summary / utils.config_summary
selected_summary(cfg, keep_keys) ==
  LET cfgd == to_plain_dict(cfg)
  IN IF Len(keep_keys) = 0 THEN cfgd ELSE SelectKeys(cfgd, keep_keys, EmptyDict)

(***************************************************************************)
(* json.dumps(x, sort_keys=True) as a character sequence (white space left *)
(* out), and the digest taken of it.  SHA-1 is replaced by a 16-bit        *)
(* polynomial digest: what is kept is that the digest is a function of the *)
(* serialized text and of nothing else.                                    *)
(***************************************************************************)
RECURSIVE InsertSorted(_, _)
InsertSorted(its, it) ==
  IF Len(its) = 0 THEN <<it>>
  ELSE IF StrLess(it[1], its[1][1]) THEN <<it>> \o its
  ELSE <<its[1]>> \o InsertSorted(Tail(its), it)

RECURSIVE SortItems(_)
SortItems(its) ==
  IF Len(its) = 0 THEN <<>> ELSE InsertSorted(SortItems(Tail(its)), its[1])

Quoted(s) == <<"\"">> \o s \o <<"\"">>

RECURSIVE JsonSorted(_)
RECURSIVE JsonItems(_)
JsonItems(its) ==
  IF Len(its) = 0 THEN <<>>
  ELSE Quoted(its[1][1]) \o <<":">> \o JsonSorted(its[1][2])
       \o (IF Len(its) > 1 THEN <<",">> ELSE <<>>) \o JsonItems(Tail(its))

JsonSorted(x) ==
  IF x.t = "int" THEN Digits(x.v)
  ELSE IF x.t = "none" THEN <<"n", "u", "l", "l">>
  ELSE IF x.t = "str" THEN Quoted(x.v)
  ELSE <<"{">> \o JsonItems(SortItems(x.items)) \o <<"}">>

StrV(s) == [t |-> "str", v |-> s]

RECURSIVE Fold(_, _)
Fold(h, s) ==
  IF Len(s) = 0 THEN h
  ELSE Fold((h * 31 + CharCode(s[1])) % 65536, Tail(s))

RECURSIVE HexOf(_, _)
\* len hex digits of n, the low-order digit first
HexOf(n, len) ==
  IF len = 0 THEN <<>> ELSE <<HexChars[(n % 16) + 1]>> \o HexOf(n \div 16, len - 1)

\* hashlib.sha1(text).hexdigest()
hexdigest(text) == HexOf(Fold(7, text), 4)

\* ExperimentProfile._stable_hash
stable_hash(pol, selected) ==
  SubSeq(hexdigest(JsonSorted(selected)), 1, pol.hash_length)

\* core.ExperimentProfile._hash : the payload is {desc, time.time()}
core_hash(pol, t) ==
  SubSeq(hexdigest(JsonSorted(DictV(<< <<<<"d">>, StrV(pol.description)>>,
                                       <<<<"t">>, IntV(t)>> >>))),
         1, pol.hash_length)

(***************************************************************************)
(* Policies (ExperimentProfile instances) and configs used as inputs.      *)
(***************************************************************************)
IdCardJson == <<"i", "d", "_", "c", "a", "r", "d", ".", "j", "s", "o", "n">>

Policy(mode, desc, keep, extra) ==
  [id_mode |-> mode, description |-> desc, keep_keys |-> keep,
   hash_length |-> 2, include_meta |-> TRUE, tags |-> <<>>,
   extra_files |-> extra, id_card_name |-> IdCardJson]

PolHash == Policy("hash", <<"a">>, <<>>, <<"*.log">>)
PolSeq  == Policy("sequential", <<"a">>, <<>>, <<>>)
PolHashK == Policy("hash", <<"a">>, << <<"o", ".", "l">> >>, <<>>)
PolTs   == Policy("timestamp", <<"b">>, << <<"o", ".", "l">> >>, <<"*.log">>)

\* {o: {l: 1, m: 2}}, the same with the inner keys inserted in the other
\* order, and a config with another value
CfgA  == DictV(<< <<<<"o">>, DictV(<< <<<<"l">>, IntV(1)>>, <<<<"m">>, IntV(2)>> >>)>> >>)
CfgA2 == DictV(<< <<<<"o">>, DictV(<< <<<<"m">>, IntV(2)>>, <<<<"l">>, IntV(1)>> >>)>> >>)
CfgB  == DictV(<< <<<<"o">>, DictV(<< <<<<"l">>, IntV(3)>>, <<<<"m">>, IntV(2)>> >>)>> >>)

RECURSIVE StructEq(_, _)
\* equality of plain values up to the insertion order of dict keys
StructEq(a, b) ==
  IF a.t # b.t THEN FALSE
  ELSE IF a.t # "dict" THEN a = b
  ELSE /\ Len(a.items) = Len(b.items)
       /\ \A i \in 1..Len(a.items) :
            /\ DictHas(b, a.items[i][1])
            /\ StructEq(a.items[i][2], DictGet(b, a.items[i][1]))

(***************************************************************************)
(* The file system under the experiment root.                              *)
(*   fs[name] = [isdir, files, ckpts, subs, others]                        *)
(*   files  : record-file name -> [st, data]; st = "partial" while a       *)
(*            writer has truncated the file and not yet closed it          *)
(*   ckpts  : checkpoint file name -> modification time                    *)
(*   subs   : the sub-directories present                                  *)
(*   others : the other plain files present                                *)
(***************************************************************************)
NoCard == [schema |-> "none"]
NoFiles == [f \in {} |-> NoCard]
EmptyDir ==
  [isdir |-> TRUE, files |-> NoFiles, ckpts |-> [f \in {} |-> 0],
   subs |-> {}, others |-> {}]

CkptGlobOrder == <<"a.ckpt", "b.pt">>   \* results of the globs, in pattern order
LogDirs == <<"wandb", "wandb_old">>
GlobMatches(pattern, fname) == pattern = "*.log" /\ fname = "run.log"

IsDirEntry(root, name) == name \in DOMAIN root /\ root[name].isdir

RECURSIVE InsertByMtime(_, _, _)
\* stable insertion for sort(key=mtime, reverse=True): an equal mtime keeps
\* the earlier element first
InsertByMtime(sorted, f, mt) ==
  IF Len(sorted) = 0 THEN <<f>>
  ELSE IF mt[sorted[Len(sorted)]] >= mt[f] THEN Append(sorted, f)
  ELSE Append(InsertByMtime(SubSeq(sorted, 1, Len(sorted) - 1), f, mt),
              sorted[Len(sorted)])

RECURSIVE SortByMtime(_, _)
SortByMtime(found, mt) ==
  IF Len(found) = 0 THEN <<>>
  ELSE InsertByMtime(SortByMtime(SubSeq(found, 1, Len(found) - 1), mt),
                     found[Len(found)], mt)

\* the checkpoints in the order the globs return them, not sorted
find_checkpoints_unsorted(dir) ==
  SelectSeq(CkptGlobOrder, LAMBDA f : f \in DOMAIN dir.ckpts)

\* find_checkpoints(exp_dir)
find_checkpoints(dir) ==
  LET found == SelectSeq(CkptGlobOrder, LAMBDA f : f \in DOMAIN dir.ckpts)
  IN SortByMtime(found, dir.ckpts)

\* find_wandb_dir(exp_dir): <<path>> when found, <<>> for None
find_wandb_dir(dir) ==
  IF "wandb" \in dir.subs THEN <<"wandb">>
  ELSE LET hits == SelectSeq(LogDirs, LAMBDA d : d \in dir.subs)
       IN IF Len(hits) > 0 THEN <<hits[1]>> ELSE <<>>

\* the extra-files loop of create_id_card: pattern -> matches, for the
\* patterns that match something
extra_found(pol, dir) ==
  LET pats == {pol.extra_files[i] : i \in 1..Len(pol.extra_files)}
      hit(pat) == {f \in dir.others : GlobMatches(pat, f)}
  IN [pat \in {q \in pats : hit(q) # {}} |-> hit(pat)]

\* f with key k set to v (k added when absent)
Put(f, k, v) == [x \in DOMAIN f \cup {k} |-> IF x = k THEN v ELSE f[x]]
Without(f, k) == [x \in DOMAIN f \ {k} |-> f[x]]

NoKeys == [k \in {} |-> <<>>]

\* the files section built by create_id_card (lines 242-258)
created_files(pol, dir) ==
  LET ckpts == find_checkpoints(dir)
      wandb_dir == find_wandb_dir(dir)
      extra == extra_found(pol, dir)
      f1 == IF Len(ckpts) > 0
            THEN Put(Put(NoKeys, "checkpoints", ckpts), "best", ckpts[1])
            ELSE NoKeys
      f2 == IF Len(wandb_dir) > 0 THEN Put(f1, "wandb", wandb_dir[1]) ELSE f1
  IN IF DOMAIN extra # {} THEN Put(f2, "extra", extra) ELSE f2

\* the files section after update_id_card_with_artifacts (lines 282-290)
refreshed_files(old, dir) ==
  LET ckpts == find_checkpoints(dir)
      wandb_dir == find_wandb_dir(dir)
      f1 == IF Len(ckpts) > 0
            THEN Put(Put(old, "checkpoints", ckpts), "best", ckpts[1])
            ELSE old
  IN IF Len(wandb_dir) > 0 THEN Put(f1, "wandb", wandb_dir[1]) ELSE f1

\* a refresh that rebuilds the card around the new files section and loses
\* the environment snapshot on the way
refreshed_card_rebuilt(id_card, dir) ==
  [id_card EXCEPT !.files = refreshed_files(@, dir), !.meta = <<>>]

\* lines 279-290: the loaded card with its files section refreshed
refreshed_card(id_card, dir) ==
  [id_card EXCEPT !.files = refreshed_files(@, dir)]

(***************************************************************************)
(* Name derivation.                                                        *)
(***************************************************************************)
\* _next_sequential_name: the numbers of the directories matching exp_\d+
ep_nums(root) ==
  {ParseInt(LeadingDigits(Drop(name, Len(Prefix)))) :
     name \in {n \in DOMAIN root :
                 /\ root[n].isdir
                 /\ StartsWith(n, Prefix)
                 /\ Len(LeadingDigits(Drop(n, Len(Prefix)))) > 0}}

\* numbering by the count of experiment directories instead of their maximum
next_sequential_name_count(root) ==
  Prefix \o ZeroPad(Digits(Cardinality(ep_nums(root)) + 1), 4)

next_sequential_name(root) ==
  LET nums == ep_nums(root)
      next_num == IF nums # {} THEN SetMax(nums) + 1 ELSE 1
  IN Prefix \o ZeroPad(Digits(next_num), 4)

\* core next_id, sequential: glob exp_*, second "_"-segment all digits
core_nums(root) ==
  {ParseInt(SplitOn(name, "_")[2]) :
     name \in {n \in DOMAIN root :
                 /\ root[n].isdir
                 /\ StartsWith(n, Prefix)
                 /\ LET seg == SplitOn(n, "_")[2]
                    IN Len(seg) > 0 /\ \A i \in 1..Len(seg) : IsDigit(seg[i])}}

\* the next number rendered without zero padding
core_sequential_id_unpadded(root) ==
  LET nums == core_nums(root)
      next_num == IF nums # {} THEN SetMax(nums) + 1 ELSE 1
  IN Prefix \o Digits(next_num)

core_sequential_id(root) ==
  LET nums == core_nums(root)
      next_num == IF nums # {} THEN SetMax(nums) + 1 ELSE 1
  IN Prefix \o ZeroPad(Digits(next_num), 4)

TicksPerSecond == 2
BaseDate == <<"2", "0", "2", "4", "0", "1", "0", "1">>

\* strftime("%Y%m%d_%H%M%S") of the clock value t, the clock starting at
\* midnight of BaseDate
strftime(t) ==
  LET s == t \div TicksPerSecond
  IN BaseDate \o <<"_">> \o ZeroPad(Digits(s \div 3600), 2)
       \o ZeroPad(Digits((s \div 60) % 60), 2) \o ZeroPad(Digits(s % 60), 2)

timestamp_name(t) == Prefix \o strftime(t)

NameError == <<>>     \* stands for "raise ValueError(unknown id_mode)"

\* a hash branch that mixes the time of the call into the digest, as
\* core._hash does
generate_exp_name_timed(root, pol, selected, t, token) ==
  IF pol.id_mode = "sequential" THEN next_sequential_name(root)
  ELSE IF pol.id_mode = "timestamp" THEN timestamp_name(t)
  ELSE IF pol.id_mode = "hash" THEN Prefix \o core_hash(pol, t)
  ELSE IF pol.id_mode = "uuid" THEN Prefix \o SubSeq(token, 1, pol.hash_length)
  ELSE NameError

\* generate_exp_name; token is the value uuid4().hex draws
generate_exp_name(root, pol, selected, t, token) ==
  IF pol.id_mode = "sequential" THEN next_sequential_name(root)
  ELSE IF pol.id_mode = "timestamp" THEN timestamp_name(t)
  ELSE IF pol.id_mode = "hash" THEN Prefix \o stable_hash(pol, selected)
  ELSE IF pol.id_mode = "uuid" THEN Prefix \o SubSeq(token, 1, pol.hash_length)
  ELSE NameError

\* core next_id
next_id(root, pol, t) ==
  IF pol.id_mode = "sequential" THEN core_sequential_id(root)
  ELSE IF pol.id_mode = "hash" THEN Prefix \o core_hash(pol, t)
  ELSE IF pol.id_mode = "timestamp" THEN Prefix \o strftime(t)
  ELSE NameError

(***************************************************************************)
(* Records (id cards).                                                     *)
(***************************************************************************)
MetaSnapshot == <<"user", "host", "cwd", "git_commit", "python_version">>

\* the id_card dict assembled by ExperimentProfile.create_id_card
ep_id_card(pol, name, selected, t, dir) ==
  [schema |-> "ep",
   id |-> name,
   stable_hash |-> stable_hash(pol, selected),
   created_at |-> t,
   description |-> pol.description,
   profile |-> <<pol.keep_keys, pol.id_mode, pol.hash_length, pol.tags,
                 pol.extra_files>>,
   summary |-> selected,
   files |-> created_files(pol, dir),
   meta |-> IF pol.include_meta THEN MetaSnapshot ELSE <<>>]

\* the id_card dict assembled by core.create_id_card
core_id_card(pol, name, summary, t, dir) ==
  [schema |-> "core",
   id |-> name,
   stable_hash |-> <<>>,
   created_at |-> t,
   description |-> pol.description,
   profile |-> <<pol.tags>>,
   summary |-> summary,
   files |-> [k \in {"checkpoints", "logs", "config"} |->
                IF k = "checkpoints"
                THEN (IF "checkpoints" \in dir.subs THEN "checkpoints" ELSE "None")
                ELSE IF k = "logs"
                THEN (IF "wandb" \in dir.subs THEN "wandb" ELSE "None")
                ELSE (IF ".hydra" \in dir.subs THEN ".hydra/config.yaml" ELSE "None")],
   meta |-> <<"user", "host", "python">>]

\* every key of a record but "files"
Identity(card) ==
  <<card.schema, card.id, card.stable_hash, card.created_at, card.description,
    card.summary, card.profile, card.meta>>

\* Path.with_suffix(".json.tmp") applied to a file name
RECURSIVE Stem(_)
Stem(name) ==
  IF Len(name) = 0 THEN <<>>
  ELSE IF name[Len(name)] = "." THEN SubSeq(name, 1, Len(name) - 1)
  ELSE Stem(SubSeq(name, 1, Len(name) - 1))

HasSuffix(name) == \E i \in 2..(Len(name) - 1) : name[i] = "."

JsonTmp == <<".", "j", "s", "o", "n", ".", "t", "m", "p">>
DotTmp  == <<".", "t", "m", "p">>

with_suffix_json_tmp(name) ==
  (IF HasSuffix(name) THEN Stem(name) ELSE name) \o JsonTmp

(***************************************************************************)
(* Writer processes.                                                       *)
(***************************************************************************)
Procs == {1, 2}

NoHandle == [d |-> <<>>, f |-> <<>>]
Orphan   == [d |-> <<>>, f |-> <<"?">>]   \* a handle on an unlinked file
NoPol    == [id_mode |-> "none"]

IdleLoc ==
  [op |-> "none", pol |-> NoPol, upd |-> FALSE, dir |-> <<>>,
   card |-> NoCard, ucard |-> NoCard, fh |-> NoHandle, ret |-> NoCard,
   err |-> "", existed |-> FALSE, logi |-> 0]

HasFile(d, f) == d \in DOMAIN fs /\ f \in DOMAIN fs[d].files

\* open(path, "w"): the file is created, or truncated in place
OpenW(root, d, f) ==
  [root EXCEPT ![d].files = Put(@, f, [st |-> "partial", data |-> NoCard])]

\* json.dump(card, f) and close, through a handle
WriteClose(root, h, card) ==
  IF h = Orphan \/ h.d \notin DOMAIN root THEN root
  ELSE [root EXCEPT ![h.d].files = Put(@, h.f, [st |-> "full", data |-> card])]

\* os.replace(src, dst) inside directory d
Replace(root, d, src, dst) ==
  [root EXCEPT ![d].files = Without(Put(@, dst, @[src]), src)]

\* what a rename does to the handles other processes hold
HandlesAfterReplace(p, d, src, dst) ==
  [q \in Procs |->
     IF q = p THEN NoHandle
     ELSE IF loc[q].fh = [d |-> d, f |-> src] THEN [d |-> d, f |-> dst]
     ELSE IF loc[q].fh = [d |-> d, f |-> dst] THEN Orphan
     ELSE loc[q].fh]

\* the operation of p ends with exception e, its locals being l
Fail(p, l, e) ==
  /\ pc' = [pc EXCEPT ![p] = "failed"]
  /\ loc' = [loc EXCEPT ![p] = [l EXCEPT !.err = e, !.fh = NoHandle]]

LogEntry(impl, pol, cfg, summary, name, existed) ==
  [impl |-> impl, pol |-> pol, cfg |-> cfg, summary |-> summary,
   name |-> name, existed |-> existed, at |-> now, done |-> FALSE,
   disk |-> <<>>]

\* the history after a registration has derived its name
Logged(entry) == IF log.on THEN [log EXCEPT !.es = Append(@, entry)] ELSE log

LogRoom == log.on => Len(log.es) < MaxLog

NoLog == [on |-> FALSE, es |-> <<>>, delmax |-> FALSE]

Init ==
  /\ fs = [n \in {} |-> EmptyDir]
  /\ now = 0
  /\ pc = [p \in Procs |-> "idle"]
  /\ loc = [p \in Procs |-> IdleLoc]
  /\ seen = "none"
  /\ log = NoLog

DiskCard(root, d, f) ==
  IF d \in DOMAIN root /\ f \in DOMAIN root[d].files /\ root[d].files[f].st = "full"
  THEN root[d].files[f].data
  ELSE NoCard

\* the registration's history entry gets the record found on disk at return
LogDone(p, root) ==
  IF loc[p].logi = 0 THEN log
  ELSE LET c == DiskCard(root, loc[p].dir, loc[p].pol.id_card_name)
       IN [log EXCEPT !.es[loc[p].logi].done = TRUE,
                      !.es[loc[p].logi].disk = IF c = NoCard THEN <<>> ELSE Identity(c)]

(***************************************************************************)
(* ExperimentProfile.create_id_card                                        *)
(***************************************************************************)
\* lines 176-258: summary, hash, target directory, record assembly
RegisterStart(p, pol, cfg, explicit, upd, token) ==
  /\ pc[p] = "idle"
  /\ LogRoom
  /\ LET selected == selected_summary(cfg, pol.keep_keys)
         name == IF explicit # <<>> THEN explicit
                 ELSE generate_exp_name(fs, pol, selected, now, token)
         l0 == [IdleLoc EXCEPT !.op = "register", !.pol = pol, !.upd = upd]
     IN IF name = NameError
        THEN Fail(p, l0, "ValueError") /\ UNCHANGED <<fs, log>>
        ELSE IF name \in DOMAIN fs /\ ~fs[name].isdir
        THEN Fail(p, l0, "FileExistsError") /\ UNCHANGED <<fs, log>>
        ELSE /\ fs' = IF name \in DOMAIN fs THEN fs ELSE Put(fs, name, EmptyDir)
             /\ log' = Logged(LogEntry("ep", pol, cfg, selected, name,
                                       name \in DOMAIN fs))
             /\ loc' = [loc EXCEPT ![p] =
                          [l0 EXCEPT !.dir = name,
                                     !.existed = name \in DOMAIN fs,
                                     !.logi = IF log.on THEN Len(log.es) + 1 ELSE 0,
                                     !.card = ep_id_card(pol, name, selected, now,
                                                         fs'[name])]]
             /\ pc' = [pc EXCEPT ![p] = "c_open"]
  /\ UNCHANGED <<now, seen>>

\* line 263: open(tmp, "w")
CreateOpenTmp(p) ==
  /\ pc[p] = "c_open"
  /\ LET tmp == loc[p].pol.id_card_name \o DotTmp
     IN /\ fs' = OpenW(fs, loc[p].dir, tmp)
        /\ loc' = [loc EXCEPT ![p].fh = [d |-> loc[p].dir, f |-> tmp]]
  /\ pc' = [pc EXCEPT ![p] = "c_write"]
  /\ UNCHANGED <<now, seen, log>>

\* line 264: json.dump and the close at the end of the with block
CreateWriteTmp(p) ==
  /\ pc[p] = "c_write"
  /\ fs' = WriteClose(fs, loc[p].fh, loc[p].card)
  /\ loc' = [loc EXCEPT ![p].fh = NoHandle]
  /\ pc' = [pc EXCEPT ![p] = "c_rename"]
  /\ UNCHANGED <<now, seen, log>>

\* lines 265-271: tmp.replace(out), then the refresh or the return
CreateRename(p) ==
  /\ pc[p] = "c_rename"
  /\ LET d == loc[p].dir
         out == loc[p].pol.id_card_name
         tmp == out \o DotTmp
     IN IF ~HasFile(d, tmp)
        THEN Fail(p, loc[p], "FileNotFoundError") /\ UNCHANGED <<fs, log>>
        ELSE /\ fs' = Replace(fs, d, tmp, out)
             /\ IF loc[p].upd
                THEN /\ pc' = [pc EXCEPT ![p] = "u_load"]
                     /\ loc' = [q \in Procs |->
                                  [loc[q] EXCEPT !.fh = HandlesAfterReplace(p, d, tmp, out)[q]]]
                     /\ log' = log
                ELSE /\ pc' = [pc EXCEPT ![p] = "done"]
                     /\ loc' = [q \in Procs |->
                                  [loc[q] EXCEPT
                                     !.fh = HandlesAfterReplace(p, d, tmp, out)[q],
                                     !.ret = IF q = p THEN loc[p].card ELSE @]]
                     /\ log' = LogDone(p, fs')
  /\ UNCHANGED <<now, seen>>

(***************************************************************************)
(* ExperimentProfile.update_id_card_with_artifacts                         *)
(***************************************************************************)
RefreshStart(p, pol, d) ==
  /\ pc[p] = "idle"
  /\ loc' = [loc EXCEPT ![p] = [IdleLoc EXCEPT !.op = "refresh", !.pol = pol,
                                               !.dir = d]]
  /\ pc' = [pc EXCEPT ![p] = "u_load"]
  /\ UNCHANGED <<fs, now, seen, log>>

\* a refresh that starts from an empty record when the file is missing
UpdLoadCreating(p) ==
  /\ pc[p] = "u_load"
  /\ LET d == loc[p].dir
         path == loc[p].pol.id_card_name
         card == IF HasFile(d, path) /\ fs[d].files[path].st = "full"
                 THEN fs[d].files[path].data
                 ELSE [NoCard EXCEPT !.schema = "ep"] @@ [files |-> NoKeys]
     IN /\ loc' = [loc EXCEPT ![p].ucard =
                     [card EXCEPT !.files = refreshed_files(@, fs[d])]]
        /\ pc' = [pc EXCEPT ![p] = "u_open"]
  /\ UNCHANGED <<fs, now, seen, log>>

\* lines 275-290: existence check, json.load, discovery merged into the card
UpdLoad(p) ==
  /\ pc[p] = "u_load"
  /\ LET d == loc[p].dir
         path == loc[p].pol.id_card_name
     IN IF ~HasFile(d, path)
        THEN Fail(p, loc[p], "FileNotFoundError")
        ELSE IF fs[d].files[path].st # "full"
        THEN Fail(p, loc[p], "JSONDecodeError")
        ELSE /\ loc' = [loc EXCEPT ![p].ucard =
                          refreshed_card(fs[d].files[path].data, fs[d])]
             /\ pc' = [pc EXCEPT ![p] = "u_open"]
  /\ UNCHANGED <<fs, now, seen, log>>

\* lines 293-294: open(tmp, "w")
UpdOpenTmp(p) ==
  /\ pc[p] = "u_open"
  /\ LET tmp == with_suffix_json_tmp(loc[p].pol.id_card_name)
     IN /\ fs' = OpenW(fs, loc[p].dir, tmp)
        /\ loc' = [loc EXCEPT ![p].fh = [d |-> loc[p].dir, f |-> tmp]]
  /\ pc' = [pc EXCEPT ![p] = "u_write"]
  /\ UNCHANGED <<now, seen, log>>

\* line 295
UpdWriteTmp(p) ==
  /\ pc[p] = "u_write"
  /\ fs' = WriteClose(fs, loc[p].fh, loc[p].ucard)
  /\ loc' = [loc EXCEPT ![p].fh = NoHandle]
  /\ pc' = [pc EXCEPT ![p] = "u_rename"]
  /\ UNCHANGED <<now, seen, log>>

\* the value the operation of p returns once its refresh has renamed: the
\* refreshed card for a refresh, the card create_id_card assembled for a
\* registration (line 271 returns id_card, line 269 drops the refresh result)
ReturnValue(l) == IF l.op = "register" THEN l.card ELSE l.ucard

\* lines 296-297
UpdRename(p) ==
  /\ pc[p] = "u_rename"
  /\ LET d == loc[p].dir
         out == loc[p].pol.id_card_name
         tmp == with_suffix_json_tmp(out)
     IN IF ~HasFile(d, tmp)
        THEN Fail(p, loc[p], "FileNotFoundError") /\ UNCHANGED <<fs, log>>
        ELSE /\ fs' = Replace(fs, d, tmp, out)
             /\ pc' = [pc EXCEPT ![p] = "done"]
             /\ loc' = [q \in Procs |->
                          [loc[q] EXCEPT
                             !.fh = HandlesAfterReplace(p, d, tmp, out)[q],
                             !.ret = IF q = p THEN ReturnValue(loc[p]) ELSE @]]
             /\ log' = LogDone(p, fs')
  /\ UNCHANGED <<now, seen>>

(***************************************************************************)
(* core.create_experiment / core.create_id_card                            *)
(***************************************************************************)
CopiedSubs == <<"checkpoints", "wandb", ".hydra">>

\* the input run directories: the sub-directories they hold, and the
\* checkpoint files (with their mtimes) under checkpoints/
InputEmpty == [subs |-> {}, ckpts |-> [f \in {} |-> 0]]
InputFull  == [subs |-> {"checkpoints", "wandb"}, ckpts |-> [f \in {"a.ckpt"} |-> 0]]

RECURSIVE CopyTrees(_, _, _)
\* lines 194-197: copytree of each sub-directory the input has; copytree
\* raises when the destination exists, the earlier copies staying in place
CopyTrees(subs, input, dir) ==
  IF Len(subs) = 0 THEN [ok |-> TRUE, dir |-> dir]
  ELSE IF subs[1] \notin input.subs THEN CopyTrees(Tail(subs), input, dir)
  ELSE IF subs[1] \in dir.subs THEN [ok |-> FALSE, dir |-> dir]
  ELSE CopyTrees(Tail(subs), input,
         [dir EXCEPT !.subs = @ \cup {subs[1]},
                     !.ckpts = IF subs[1] = "checkpoints"
                               THEN [f \in DOMAIN @ \cup DOMAIN input.ckpts |->
                                       IF f \in DOMAIN input.ckpts
                                       THEN input.ckpts[f] ELSE @[f]]
                               ELSE @])

\* create_experiment lines 185-197 and create_id_card lines 145-169
CoreStart(p, pol, cfg, input) ==
  /\ pc[p] = "idle"
  /\ LogRoom
  /\ LET name == next_id(fs, pol, now)
         l0 == [IdleLoc EXCEPT !.op = "core", !.pol = pol]
     IN IF name = NameError
        THEN Fail(p, l0, "ValueError") /\ UNCHANGED <<fs, log>>
        ELSE IF name \in DOMAIN fs /\ ~fs[name].isdir
        THEN Fail(p, l0, "FileExistsError") /\ UNCHANGED <<fs, log>>
        ELSE /\ LET made == IF name \in DOMAIN fs THEN fs[name] ELSE EmptyDir
                    copy == CopyTrees(CopiedSubs, input, made)
                    summary == selected_summary(cfg, pol.keep_keys)
                    l1 == [l0 EXCEPT !.dir = name, !.existed = name \in DOMAIN fs,
                                     !.logi = IF log.on THEN Len(log.es) + 1 ELSE 0]
                IN /\ fs' = Put(fs, name, copy.dir)
                   /\ log' = Logged(LogEntry("core", pol, cfg, summary, name,
                                             name \in DOMAIN fs))
                   /\ IF copy.ok
                      THEN /\ loc' = [loc EXCEPT ![p] =
                                        [l1 EXCEPT !.card =
                                           core_id_card(pol, name, summary, now,
                                                        copy.dir)]]
                           /\ pc' = [pc EXCEPT ![p] = "k_open"]
                      ELSE Fail(p, l1, "FileExistsError")
  /\ UNCHANGED <<now, seen>>

\* line 171: open(exp_dir / "id_card.json", "w")
CoreOpen(p) ==
  /\ pc[p] = "k_open"
  /\ fs' = OpenW(fs, loc[p].dir, IdCardJson)
  /\ loc' = [loc EXCEPT ![p].fh = [d |-> loc[p].dir, f |-> IdCardJson]]
  /\ pc' = [pc EXCEPT ![p] = "k_write"]
  /\ UNCHANGED <<now, seen, log>>

\* lines 172-174
CoreWrite(p) ==
  /\ pc[p] = "k_write"
  /\ fs' = WriteClose(fs, loc[p].fh, loc[p].card)
  /\ loc' = [loc EXCEPT ![p].fh = NoHandle, ![p].ret = loc[p].card]
  /\ pc' = [pc EXCEPT ![p] = "done"]
  /\ log' = LogDone(p, fs')
  /\ UNCHANGED <<now, seen>>

(***************************************************************************)
(* The caller, the environment and readers.                                *)
(***************************************************************************)
\* the caller takes the result (or the exception) of a finished operation
Finish(p) ==
  /\ pc[p] \in {"done", "failed"}
  /\ pc' = [pc EXCEPT ![p] = "idle"]
  /\ loc' = [loc EXCEPT ![p] = IdleLoc]
  /\ UNCHANGED <<fs, now, seen, log>>

\* the process dies in the middle of an operation
Crash(p) ==
  /\ pc[p] \notin {"idle", "done", "failed"}
  /\ pc' = [pc EXCEPT ![p] = "idle"]
  /\ loc' = [loc EXCEPT ![p] = IdleLoc]
  /\ UNCHANGED <<fs, now, seen, log>>

Tick ==
  /\ now < MaxTime
  /\ now' = now + 1
  /\ UNCHANGED <<fs, pc, loc, seen, log>>

\* the training run writes (or rewrites) a checkpoint file
AddCkpt(d, f) ==
  /\ IsDirEntry(fs, d)
  /\ IF f \in DOMAIN fs[d].ckpts THEN fs[d].ckpts[f] # now ELSE TRUE
  /\ fs' = [fs EXCEPT ![d].ckpts = Put(@, f, now)]
  /\ UNCHANGED <<now, pc, loc, seen, log>>

\* the training run removes a checkpoint file (top-k retention)
DelCkpt(d, f) ==
  /\ IsDirEntry(fs, d)
  /\ f \in DOMAIN fs[d].ckpts
  /\ fs' = [fs EXCEPT ![d].ckpts = Without(@, f)]
  /\ UNCHANGED <<now, pc, loc, seen, log>>

\* the tracking tool creates its directory
AddSub(d, sub) ==
  /\ IsDirEntry(fs, d)
  /\ sub \notin fs[d].subs
  /\ fs' = [fs EXCEPT ![d].subs = @ \cup {sub}]
  /\ UNCHANGED <<now, pc, loc, seen, log>>

\* the run writes another file
AddOther(d, f) ==
  /\ IsDirEntry(fs, d)
  /\ f \notin fs[d].others
  /\ fs' = [fs EXCEPT ![d].others = @ \cup {f}]
  /\ UNCHANGED <<now, pc, loc, seen, log>>

\* a reader opens and reads the record file of d
Read(d, f) ==
  /\ HasFile(d, f)
  /\ seen' = fs[d].files[f].st
  /\ UNCHANGED <<fs, now, pc, loc, log>>

(***************************************************************************)
(* Spec: one caller at a time issues timestamp-mode registrations (both    *)
(* implementations) and refreshes; the process may die at any step; the    *)
(* training run adds and removes artifacts in between.                     *)
(***************************************************************************)
NoToken == <<"0", "0">>

Register(p) ==
  \E upd \in BOOLEAN : RegisterStart(p, PolTs, CfgA, <<>>, upd, NoToken)

Refresh(p) == \E d \in DOMAIN fs : RefreshStart(p, PolTs, d)

CoreCreate(p) ==
  \E input \in {InputEmpty, InputFull} : CoreStart(p, PolTs, CfgA, input)

Step(p) ==
  \/ CreateOpenTmp(p) \/ CreateWriteTmp(p) \/ CreateRename(p)
  \/ UpdLoad(p) \/ UpdOpenTmp(p) \/ UpdWriteTmp(p) \/ UpdRename(p)
  \/ CoreOpen(p) \/ CoreWrite(p)
  \/ Finish(p)

Env ==
  \/ Tick
  \/ \E d \in DOMAIN fs : AddCkpt(d, "a.ckpt") \/ DelCkpt(d, "a.ckpt")
  \/ \E d \in DOMAIN fs : AddOther(d, "run.log") \/ AddSub(d, "wandb")

Next ==
  \/ Register(1) \/ Refresh(1) \/ CoreCreate(1)
  \/ Step(1)
  \/ Crash(1)
  \/ Env

Spec == Init /\ [][Next]_vars

(***************************************************************************)
(* Properties checked under Spec.                                          *)
(***************************************************************************)
RecordOf(root, p) == DiskCard(root, loc[p].dir, loc[p].pol.id_card_name)

\* C1: the rename that ends a refresh replaces a complete record by one
\* whose every key but "files" (identifier, hash, timestamp, description,
\* summary, policy echo, meta) has the value it had before.
C1_RefreshTouchesOnlyFiles ==
  [][\A p \in Procs :
       (pc[p] = "u_rename" /\ pc'[p] = "done")
         => /\ RecordOf(fs, p) # NoCard
            /\ RecordOf(fs', p) # NoCard
            /\ Identity(RecordOf(fs', p)) = Identity(RecordOf(fs, p))]_vars

\* C1 witness: a stand-alone refresh is about to rename a card whose files
\* section differs from the one on disk, the record being older than now
C1_Witness ==
  /\ pc[1] = "u_rename"
  /\ loc[1].op = "refresh"
  /\ RecordOf(fs, 1) # NoCard
  /\ loc[1].ucard.files # RecordOf(fs, 1).files
  /\ RecordOf(fs, 1).created_at < now

\* C2 (as claimed): a record file that holds a complete record holds a
\* complete record after every step of every register or refresh operation
\* and after a crash.
C2_RecordNeverLost ==
  [][\A d \in DOMAIN fs :
       DiskCard(fs, d, IdCardJson) # NoCard
         => DiskCard(fs', d, IdCardJson) # NoCard]_vars

\* C7 (as claimed): the card a refresh loads and updates has a files
\* section equal to the result of artifact discovery (checkpoints and best,
\* log directory, extra files) on the directory at that moment.
C7_FilesEqualDiscovery ==
  [][\A p \in Procs :
       (pc[p] = "u_load" /\ pc'[p] = "u_open")
         => loc'[p].ucard.files = created_files(loc[p].pol, fs[loc[p].dir])]_vars

\* C8 (as claimed): a registration with the refresh-after-create flag
\* returns the record that is on disk when it returns.
C8_ReturnsRefreshedRecord ==
  \A p \in Procs :
    (pc[p] = "done" /\ loc[p].op = "register" /\ loc[p].upd)
      => loc[p].ret = RecordOf(fs, p)

\* C9 (as claimed): a sequential- or timestamp-mode registration never
\* overwrites the record of an earlier registration: when it opens the
\* record file or renames its temp file over it, no complete record is
\* there.
C9_NeverOverwritesRecord ==
  [][\A p \in Procs :
       (/\ loc[p].op \in {"register", "core"}
        /\ loc[p].pol.id_mode \in {"sequential", "timestamp"}
        /\ \/ pc[p] = "c_rename" /\ pc'[p] \in {"done", "u_load"}
           \/ pc[p] = "k_open" /\ pc'[p] = "k_write")
         => RecordOf(fs, p) = NoCard]_vars

\* C11: a refresh of a directory that holds no record file at the policy's
\* record name ends with a not-found error and changes nothing on disk (no
\* record file, no temp file).
C11_RefreshWithoutRecordFails ==
  [][\A p \in Procs :
       (/\ pc[p] = "u_load"
        /\ pc'[p] \notin {"u_load", "idle"}
        /\ ~HasFile(loc[p].dir, loc[p].pol.id_card_name))
         => /\ pc'[p] = "failed"
            /\ loc'[p].err = "FileNotFoundError"
            /\ fs' = fs]_vars

\* C11 witness: a stand-alone refresh of an existing directory without any
\* file in it has failed with the not-found error
C11_Witness ==
  /\ pc[1] = "failed"
  /\ loc[1].op = "refresh"
  /\ loc[1].err = "FileNotFoundError"
  /\ IsDirEntry(fs, loc[1].dir)
  /\ DOMAIN fs[loc[1].dir].files = {}

(***************************************************************************)
(* SpecConc: two writers run registrations and refreshes of                *)
(* experiment_profile.py concurrently, and readers read in between.        *)
(***************************************************************************)
RegisterConc(p) == RegisterStart(p, PolTs, CfgA, <<>>, FALSE, NoToken)

StepEP(p) ==
  \/ CreateOpenTmp(p) \/ CreateWriteTmp(p) \/ CreateRename(p)
  \/ UpdLoad(p) \/ UpdOpenTmp(p) \/ UpdWriteTmp(p) \/ UpdRename(p)
  \/ Finish(p)

NextConc ==
  \/ \E p \in Procs : RegisterConc(p) \/ Refresh(p) \/ StepEP(p)
  \/ \E d \in DOMAIN fs : Read(d, IdCardJson)

SpecConc == Init /\ [][NextConc]_vars

\* C10 (as claimed): a reader of an existing record file never gets a
\* partially written record.
C10_ReaderSeesCompleteRecord == seen # "partial"

(***************************************************************************)
(* SpecHist: hash-mode registrations by both implementations, one after    *)
(* the other, with the clock running; log records each of them.           *)
(***************************************************************************)
InitHist ==
  /\ fs = [n \in {} |-> EmptyDir]
  /\ now = 0
  /\ pc = [p \in Procs |-> "idle"]
  /\ loc = [p \in Procs |-> IdleLoc]
  /\ seen = "none"
  /\ log = [NoLog EXCEPT !.on = TRUE]

Configs == {CfgA, CfgA2, CfgB}

\* update_after keeps its default, True
RegisterHash(p) ==
  \E pol \in {PolHash, PolHashK}, cfg \in Configs :
    RegisterStart(p, pol, cfg, <<>>, TRUE, NoToken)

CoreCreateHash(p) == CoreStart(p, PolHash, CfgA, InputEmpty)

NextHist ==
  \/ RegisterHash(1) \/ CoreCreateHash(1)
  \/ Step(1)
  \/ Tick

SpecHist == InitHist /\ [][NextHist]_vars

HashEntries == {i \in 1..Len(log.es) : log.es[i].pol.id_mode = "hash"}

\* C3 (as claimed): two hash-mode derivations by the same implementation
\* under the same policy from structurally equal summaries give the same
\* name, whatever the time and the root contents.
C3_HashNameFromSummaryAlone ==
  \A i, j \in HashEntries :
    (/\ log.es[i].impl = log.es[j].impl
     /\ log.es[i].pol = log.es[j].pol
     /\ StructEq(log.es[i].summary, log.es[j].summary))
      => log.es[i].name = log.es[j].name

\* pairs (first call, second call) of finished hash-mode registrations of
\* experiment_profile.py with identical policy and config
Reruns ==
  {ij \in HashEntries \X HashEntries :
     /\ ij[1] < ij[2]
     /\ log.es[ij[1]].impl = "ep" /\ log.es[ij[2]].impl = "ep"
     /\ log.es[ij[1]].done /\ log.es[ij[2]].done
     /\ log.es[ij[1]].pol = log.es[ij[2]].pol
     /\ log.es[ij[1]].cfg = log.es[ij[2]].cfg}

\* positions in Identity(card)
IdOf(ident)      == ident[2]
HashOf(ident)    == ident[3]
CreatedOf(ident) == ident[4]
DescOf(ident)    == ident[5]
SummaryOf(ident) == ident[6]

SameButTimestamp(a, b) ==
  /\ IdOf(a) = IdOf(b)
  /\ HashOf(a) = HashOf(b)
  /\ DescOf(a) = DescOf(b)
  /\ SummaryOf(a) = SummaryOf(b)

\* C4 (as claimed): the second of two identical hash-mode registrations
\* targets the same directory and leaves a record with the identifier,
\* content hash, creation timestamp, description and summary of the first.
C4_RerunKeepsRecord ==
  \A ij \in Reruns :
    LET a == log.es[ij[1]]
        b == log.es[ij[2]]
    IN /\ a.name = b.name
       /\ SameButTimestamp(a.disk, b.disk)
       /\ CreatedOf(a.disk) = CreatedOf(b.disk)

\* C4 (amended): the second of two identical hash-mode registrations
\* targets the same directory and leaves a record with the identifier,
\* content hash, description and summary of the first; its creation
\* timestamp is the time of the second call.
C4_RerunKeepsIdentityNotTimestamp ==
  \A ij \in Reruns :
    LET a == log.es[ij[1]]
        b == log.es[ij[2]]
    IN /\ a.name = b.name
       /\ b.existed
       /\ SameButTimestamp(a.disk, b.disk)
       /\ CreatedOf(b.disk) = b.at

\* C4 witness: a re-registration finished at a later time than the first
C4_Witness ==
  \E ij \in Reruns : log.es[ij[1]].at < log.es[ij[2]].at

(***************************************************************************)
(* SpecSeq: sequential-mode registrations by both implementations, between *)
(* which experiment directories get deleted; the root starts with any of   *)
(* a few directories in it.                                                *)
(***************************************************************************)
Exp0001 == Prefix \o <<"0", "0", "0", "1">>
Exp0003 == Prefix \o <<"0", "0", "0", "3">>
Exp0002Old == Prefix \o <<"0", "0", "0", "2", "_", "o", "l", "d">>
DataDir == <<"d", "a", "t", "a">>
InitialDirs == {Exp0001, Exp0003, Exp0002Old, Prefix, DataDir}

InitSeq ==
  /\ \E present \in SUBSET InitialDirs : fs = [n \in present |-> EmptyDir]
  /\ now = 0
  /\ pc = [p \in Procs |-> "idle"]
  /\ loc = [p \in Procs |-> IdleLoc]
  /\ seen = "none"
  /\ log = [NoLog EXCEPT !.on = TRUE]

RegisterSeq(p) == RegisterStart(p, PolSeq, CfgA, <<>>, FALSE, NoToken)

CoreCreateSeq(p) == CoreStart(p, PolSeq, CfgA, InputEmpty)

\* the number a directory name carries: the digits between "exp_" and the
\* next "_" or the end of the name
HasNumber(name) ==
  /\ StartsWith(name, Prefix)
  /\ LET seg == UpTo(Drop(name, Len(Prefix)), "_")
     IN Len(seg) > 0 /\ \A i \in 1..Len(seg) : IsDigit(seg[i])

NumberOf(name) == ParseInt(UpTo(Drop(name, Len(Prefix)), "_"))

NumbersIn(root) ==
  {NumberOf(n) : n \in {m \in DOMAIN root : root[m].isdir /\ HasNumber(m)}}

\* the user removes an experiment directory between two operations
DeleteDir(d) ==
  /\ \A p \in Procs : pc[p] = "idle"
  /\ d \in DOMAIN fs
  /\ fs' = Without(fs, d)
  /\ log' = [log EXCEPT !.delmax =
               @ \/ (HasNumber(d) /\ NumberOf(d) = SetMax(NumbersIn(fs)))]
  /\ UNCHANGED <<now, pc, loc, seen>>

NextSeq ==
  \/ RegisterSeq(1) \/ CoreCreateSeq(1)
  \/ CreateOpenTmp(1) \/ CreateWriteTmp(1) \/ CreateRename(1)
  \/ CoreOpen(1) \/ CoreWrite(1)
  \/ Finish(1)
  \/ \E d \in DOMAIN fs : DeleteDir(d)

SpecSeq == InitSeq /\ [][NextSeq]_vars

Increasing ==
  \A i, j \in 1..Len(log.es) :
    i < j => NumberOf(log.es[i].name) < NumberOf(log.es[j].name)

\* C5 (as claimed): the numbers handed out strictly increase over any
\* sequence of registrations and deletions, the deletion of the
\* highest-numbered directory included.
C5_NumbersNeverReissued == Increasing

\* C5 (amended): the numbers handed out strictly increase as long as no
\* deletion removes the directory that carries the highest number.
C5_IncreasingUnlessMaxDeleted == ~log.delmax => Increasing

\* C5 witness: exp_0002 and then exp_0003 were handed out, exp_0001 (not the
\* highest) having been deleted
C5_Witness ==
  /\ ~log.delmax
  /\ Len(log.es) = 2
  /\ NumberOf(log.es[1].name) = 2
  /\ NumberOf(log.es[2].name) = 3
  /\ Exp0001 \notin DOMAIN fs

MetaJson == <<"m", "e", "t", "a", ".", "j", "s", "o", "n">>

PolUuid  == [PolSeq EXCEPT !.id_mode = "uuid"]
PolOther == [PolSeq EXCEPT !.id_mode = "counter"]   \* not a mode the code knows
PolNamed == [PolSeq EXCEPT !.id_card_name = MetaJson]

Policies == {PolHash, PolSeq, PolTs, PolUuid, PolOther, PolNamed}

\* values uuid.uuid4().hex may start with
Tokens == {<<"0", "0">>, <<"a", "f">>}

RegisterPol(p) ==
  \E pol \in Policies, explicit \in {<<>>, DataDir}, token \in Tokens :
    /\ pol.id_mode # "uuid" => token = NoToken
    /\ RegisterStart(p, pol, CfgA, explicit, TRUE, token)

CoreCreatePol(p) == \E pol \in Policies : CoreStart(p, pol, CfgA, InputEmpty)

RefreshPol(p) ==
  \E d \in DOMAIN fs, pol \in {PolSeq, PolNamed} : RefreshStart(p, pol, d)

NextPol ==
  \/ RegisterPol(1) \/ CoreCreatePol(1) \/ RefreshPol(1)
  \/ Step(1)

SpecPol == InitHist /\ [][NextPol]_vars

RecognizedModes == {"hash", "sequential", "timestamp", "uuid"}

\* C12 (as claimed): a registration under a policy whose identifier mode is
\* none of hash, sequential, timestamp, uuid ends with the invalid-mode
\* error and leaves the disk as it was; under each of the four modes it
\* does not end with that error.
C12_UnknownModeFails ==
  [][\A p \in Procs :
       (pc[p] = "idle" /\ pc'[p] # "idle" /\ loc'[p].op \in {"register", "core"})
         => IF loc'[p].pol.id_mode \in RecognizedModes
            THEN ~(pc'[p] = "failed" /\ loc'[p].err = "ValueError")
            ELSE /\ pc'[p] = "failed"
                 /\ loc'[p].err = "ValueError"
                 /\ fs' = fs]_vars

\* C15 (as claimed): when a registration under policy P into directory D
\* has returned, D holds exactly one record file, a complete one, and its
\* name is P.id_card_name.
C15_RecordAtPolicyName ==
  \A p \in Procs :
    (pc[p] = "done" /\ loc[p].op \in {"register", "core"})
      => /\ DiskCard(fs, loc[p].dir, loc[p].pol.id_card_name) # NoCard
         /\ DOMAIN fs[loc[p].dir].files = {loc[p].pol.id_card_name}

(***************************************************************************)
(* SpecProj: one registration, by either implementation, of a config and   *)
(* a keep-list drawn from the sets below; log records the config and the   *)
(* summary projected from it.                                              *)
(***************************************************************************)
KeyOL == <<"o", ".", "l">>
KeyOM == <<"o", ".", "m">>
KeyOX == <<"o", ".", "x">>
KeyO  == <<"o">>
KeyX  == <<"x">>

\* {o: {l: null, m: 2}}, {o: {lm: 1}}, {"o.l": {m: 1}}
CfgNull   == DictV(<< <<KeyO, DictV(<< <<<<"l">>, NoneV>>, <<<<"m">>, IntV(2)>> >>)>> >>)
CfgLonger == DictV(<< <<KeyO, DictV(<< <<<<"l", "m">>, IntV(1)>> >>)>> >>)
CfgDotted == DictV(<< <<KeyOL, DictV(<< <<<<"m">>, IntV(1)>> >>)>> >>)

ProjConfigs == {CfgA, CfgNull, CfgLonger, CfgDotted, NoneV}

KeepLists ==
  {<<>>, <<KeyOL>>, <<KeyO>>, <<KeyX>>, <<KeyOX>>, <<KeyOL, KeyOM>>,
   <<KeyO, KeyOL>>, <<KeyOL, KeyX>>}

RegisterProj(p) ==
  \E cfg \in ProjConfigs, keep \in KeepLists :
    /\ Len(log.es) = 0
    /\ RegisterStart(p, [PolSeq EXCEPT !.keep_keys = keep], cfg, <<>>, FALSE,
                     NoToken)

CoreCreateProj(p) ==
  \E cfg \in ProjConfigs, keep \in KeepLists :
    /\ Len(log.es) = 0
    /\ CoreStart(p, [PolSeq EXCEPT !.keep_keys = keep], cfg, InputEmpty)

NextProj ==
  \/ RegisterProj(1) \/ CoreCreateProj(1)
  \/ CreateOpenTmp(1) \/ CreateWriteTmp(1) \/ CreateRename(1)
  \/ CoreOpen(1) \/ CoreWrite(1)
  \/ Finish(1)

SpecProj == InitHist /\ [][NextProj]_vars

\* the reference projection, stated on its own terms
Normalized(cfg) == IF cfg = NoneV THEN EmptyDict ELSE cfg

RECURSIVE Resolves(_, _)
\* the path parts lead through nested mappings to an entry
Resolves(d, parts) ==
  IF Len(parts) = 0 THEN TRUE
  ELSE /\ d.t = "dict"
       /\ \E i \in 1..Len(d.items) :
            d.items[i][1] = parts[1] /\ Resolves(d.items[i][2], Tail(parts))

RECURSIVE ValueAt(_, _)
ValueAt(d, parts) ==
  IF Len(parts) = 0 THEN d
  ELSE ValueAt(d.items[CHOOSE i \in 1..Len(d.items) : d.items[i][1] = parts[1]][2],
               Tail(parts))

RECURSIVE Leaves(_, _)
\* the dotted leaf keys of d with their values, as a set of pairs
Leaves(d, parent) ==
  UNION {LET k == IF Len(parent) > 0 THEN parent \o <<".">> \o d.items[i][1]
                  ELSE d.items[i][1]
             v == d.items[i][2]
         IN IF v.t = "dict" THEN Leaves(v, k) ELSE {<<k, v>>}
         : i \in 1..Len(d.items)}

\* the leaves strictly below path p, keyed by what follows "p."
NestedMatches(d, p) ==
  {<<Drop(l[1], Len(p) + 1), l[2]>> :
     l \in {m \in Leaves(d, <<>>) : StartsWith(m[1], p \o <<".">>)}}

ItemSet(d) == {d.items[i] : i \in 1..Len(d.items)}

PathParts(p) == SplitOn(p, ".")

IsReferenceProjection(summary, cfg, keep) ==
  LET d == Normalized(cfg)
  IN IF Len(keep) = 0 THEN summary = d
     ELSE /\ \A it \in ItemSet(summary) : \E i \in 1..Len(keep) : keep[i] = it[1]
          /\ \A i \in 1..Len(keep) :
               LET p == keep[i]
               IN IF Resolves(d, PathParts(p))
                  THEN DictHas(summary, p)
                       /\ DictGet(summary, p) = ValueAt(d, PathParts(p))
                  ELSE IF NestedMatches(d, p) # {}
                  THEN DictHas(summary, p)
                       /\ DictGet(summary, p).t = "dict"
                       /\ ItemSet(DictGet(summary, p)) = NestedMatches(d, p)
                  ELSE ~DictHas(summary, p)

\* C13 (as claimed): the summary a registration projects equals the
\* reference projection of its config and keep-list: the whole normalized
\* mapping for an empty keep-list; otherwise summary[p] = value for a path
\* that resolves exactly, the nested matches keyed by suffix for a path
\* that does not, and no entry for a path with neither.
C13_ProjectionIsReference ==
  \A i \in 1..Len(log.es) :
    IsReferenceProjection(log.es[i].summary, log.es[i].cfg,
                          log.es[i].pol.keep_keys)

\* the lookup of p gave nothing, so the prefix fallback ran
FellBack(d, p) ==
  ~Resolves(d, PathParts(p)) \/ ValueAt(d, PathParts(p)) = NoneV

\* C17 (as claimed): every entry summary[p][s] = v the prefix fallback
\* produces comes from a leaf of the normalized config whose dotted key
\* is p + "." + s and whose value is v.
C17_FallbackOnDottedBoundaries ==
  \A i \in 1..Len(log.es) :
    LET e == log.es[i]
        d == Normalized(e.cfg)
    IN \A j \in 1..Len(e.pol.keep_keys) :
         LET p == e.pol.keep_keys[j]
         IN (FellBack(d, p) /\ DictHas(e.summary, p))
              => \A it \in ItemSet(DictGet(e.summary, p)) :
                   <<p \o <<".">> \o it[1], it[2]>> \in Leaves(d, <<>>)

(***************************************************************************)
(* SpecCkpt: registrations and refreshes of experiment_profile.py while    *)
(* the training run writes, rewrites and removes two checkpoint files.     *)
(***************************************************************************)
RegisterCkpt(p) ==
  \E upd \in BOOLEAN : RegisterStart(p, PolTs, CfgA, <<>>, upd, NoToken)

NextCkpt ==
  \/ RegisterCkpt(1) \/ Refresh(1)
  \/ StepEP(1)
  \/ Tick
  \/ \E d \in DOMAIN fs, f \in {"a.ckpt", "b.pt"} : AddCkpt(d, f) \/ DelCkpt(d, f)

SpecCkpt == Init /\ [][NextCkpt]_vars

\* checkpoints absent or a non-empty list, best present exactly when
\* checkpoints is, best the first element
WellFormedFiles(files) ==
  /\ ("checkpoints" \in DOMAIN files) <=> ("best" \in DOMAIN files)
  /\ "checkpoints" \in DOMAIN files
       => /\ Len(files["checkpoints"]) > 0
          /\ files["best"] = files["checkpoints"][1]

\* the list names each checkpoint file of dir once, newest first
NewestFirst(list, dir) ==
  /\ {list[i] : i \in 1..Len(list)} = DOMAIN dir.ckpts
  /\ Len(list) = Cardinality(DOMAIN dir.ckpts)
  /\ \A i, j \in 1..Len(list) : i < j => dir.ckpts[list[i]] >= dir.ckpts[list[j]]

\* C14: every complete record file has a well-formed files section
\* (checkpoints absent or non-empty, best present exactly when checkpoints
\* is and equal to its first element), and whenever a registration or a
\* refresh discovers checkpoint files, the list it puts in the record names
\* them newest-first by modification time.
C14_CheckpointsNewestFirstWithBest ==
  [][/\ \A d \in DOMAIN fs' : \A f \in DOMAIN fs'[d].files :
          fs'[d].files[f].st = "full"
            => WellFormedFiles(fs'[d].files[f].data.files)
     /\ \A p \in Procs :
          /\ (pc[p] = "idle" /\ pc'[p] = "c_open")
               => /\ WellFormedFiles(loc'[p].card.files)
                  /\ DOMAIN fs'[loc'[p].dir].ckpts # {}
                       => /\ "checkpoints" \in DOMAIN loc'[p].card.files
                          /\ NewestFirst(loc'[p].card.files["checkpoints"],
                                         fs'[loc'[p].dir])
          /\ (pc[p] = "u_load" /\ pc'[p] = "u_open")
               => /\ WellFormedFiles(loc'[p].ucard.files)
                  /\ DOMAIN fs'[loc'[p].dir].ckpts # {}
                       => /\ "checkpoints" \in DOMAIN loc'[p].ucard.files
                          /\ NewestFirst(loc'[p].ucard.files["checkpoints"],
                                         fs'[loc'[p].dir])]_vars

\* C14 witness: a refresh has written a record that lists b.pt before the
\* older a.ckpt, the reverse of the order the globs return them in
C14_Witness ==
  /\ pc[1] = "done"
  /\ loc[1].op = "refresh"
  /\ RecordOf(fs, 1) # NoCard
  /\ "checkpoints" \in DOMAIN RecordOf(fs, 1).files
  /\ RecordOf(fs, 1).files["checkpoints"] = <<"b.pt", "a.ckpt">>
  /\ RecordOf(fs, 1).files["best"] = "b.pt"
  /\ DOMAIN fs[loc[1].dir].ckpts = {"a.ckpt", "b.pt"}
  /\ fs[loc[1].dir].ckpts["b.pt"] > fs[loc[1].dir].ckpts["a.ckpt"]

(***************************************************************************)
(* SpecList: sequential-mode registrations by both implementations, any of *)
(* which may die half-way, and listings of the root in between.            *)
(***************************************************************************)
\* card["id"].split("_")[-1]
LastSegment(name) == SplitOn(name, "_")[Len(SplitOn(name, "_"))]

NoneRow == [none |-> TRUE]

\* the output dict experiment_summary builds from a loaded card
SummaryRow(card) ==
  [none |-> FALSE, id |-> LastSegment(card.id),
   description |-> card.description, time |-> card.created_at]

\* experiment_summary(exp_dir, id_card_name): the row, None when the card
\* file does not exist; json.load raises on a file that is not complete
experiment_summary(root, d, id_card_name) ==
  IF ~(root[d].isdir /\ id_card_name \in DOMAIN root[d].files)
  THEN [raised |-> FALSE, row |-> NoneRow]
  ELSE IF root[d].files[id_card_name].st # "full"
  THEN [raised |-> TRUE, row |-> NoneRow]
  ELSE [raised |-> FALSE, row |-> SummaryRow(root[d].files[id_card_name].data)]

\* exp_root.glob("exp_*")
ExpGlob(root) == {n \in DOMAIN root : StartsWith(n, Prefix)}

RECURSIVE SortedNames(_)
\* sorted(...) of a set of names
SortedNames(S) ==
  IF S = {} THEN <<>>
  ELSE LET least == CHOOSE n \in S : \A m \in S \ {n} : StrLess(n, m)
       IN <<least>> \o SortedNames(S \ {least})

\* list_experiments without filters: the loop over the sorted children,
\* then pd.DataFrame(exps).  What pandas makes of a list holding None is
\* not decided by this repository: it raises, or keeps a row for it.
ListExperiments(p) ==
  /\ pc[p] = "idle"
  /\ LET names == SortedNames(ExpGlob(fs))
         exps == [i \in 1..Len(names) |-> experiment_summary(fs, names[i], IdCardJson)]
         l0 == [IdleLoc EXCEPT !.op = "list", !.pol = PolSeq]
     IN IF \E i \in 1..Len(exps) : exps[i].raised
        THEN Fail(p, l0, "JSONDecodeError")
        ELSE \E frame \in BOOLEAN :
               IF ~frame /\ (\E i \in 1..Len(exps) : exps[i].row = NoneRow)
               THEN Fail(p, l0, "AttributeError")
               ELSE /\ pc' = [pc EXCEPT ![p] = "done"]
                    /\ loc' = [loc EXCEPT ![p] =
                                 [l0 EXCEPT !.ret =
                                    [schema |-> "listing",
                                     rows |-> [i \in 1..Len(exps) |-> exps[i].row]]]]
  /\ UNCHANGED <<fs, now, seen, log>>

NextList ==
  \/ RegisterSeq(1) \/ CoreCreateSeq(1)
  \/ CreateOpenTmp(1) \/ CreateWriteTmp(1) \/ CreateRename(1)
  \/ CoreOpen(1) \/ CoreWrite(1)
  \/ Finish(1)
  \/ Crash(1)
  \/ ListExperiments(1)

SpecList == InitHist /\ [][NextList]_vars

\* the experiment-named children whose record file is there and complete
Readable(root) ==
  {d \in DOMAIN root : StartsWith(d, Prefix)
                        /\ DiskCard(root, d, IdCardJson) # NoCard}

\* C16 (as claimed): a listing does not fail, has one entry for each
\* experiment-named child with a readable record and no entry for a child
\* whose record file is missing or corrupt.
C16_ListingSkipsUnreadable ==
  \A p \in Procs :
    (pc[p] \in {"done", "failed"} /\ loc[p].op = "list")
      => /\ pc[p] = "done"
         /\ LET rows == loc[p].ret.rows
            IN /\ Len(rows) = Cardinality(Readable(fs))
               /\ \A i \in 1..Len(rows) : ~rows[i].none
               /\ {rows[i].id : i \in 1..Len(rows)}
                    = {LastSegment(d) : d \in Readable(fs)}

====
